---- MODULE Spec2Model ----
(***************************************************************************)
(* A model of pngme: the chunk type validator (chunk_type.rs), the single  *)
(* chunk codec (chunk.rs) and the command handlers of main.rs.             *)
(*                                                                         *)
(* Bytes are naturals in 0..255.  A Rust string is modelled by its UTF-8   *)
(* bytes.  A u32 is a record [hi, lo] of two 16-bit halves and a usize     *)
(* (64-bit target) is a tuple of four 16-bit limbs, least significant      *)
(* first, so that no value exceeds what the model checker can compute.     *)
(* A Result is a record whose field kind is "Ok" or "Err"; a call that     *)
(* unwinds has kind "Panic".                                               *)
(***************************************************************************)
EXTENDS Integers, Sequences, FiniteSets, TLC

VARIABLES
    \* chunk_type.rs: the last ChunkType call
    tc_call,          \* "none" | "try_from" | "from_str" | "bytes" | "flags"
    tc_in,            \* the bytes handed to the constructor
    tc_res,           \* the constructor's Result
    tc_out,           \* what the last accessor call returned
    \* chunk.rs: one chunk session
    overflow_checks,  \* the build profile: TRUE (debug) or FALSE (release)
    created,          \* the Chunk built by Chunk::new, or NoChunk
    value,            \* the byte buffer held as input of Chunk::try_from
    prov,             \* how value was obtained
    res,              \* the outcome of the last Chunk call
    \* chunk.rs: the length arithmetic for a payload whose bytes are abstract
    sz_data,          \* data.len() of the payload handed to Chunk::new
    sz_chunk,         \* the length field Chunk::new stored
    sz_res,           \* the outcome of the last sized call
    \* main.rs: the file the commands read and write
    file,             \* bytes of the png file
    cmd               \* the last command and what it observed

typeVars == <<tc_call, tc_in, tc_res, tc_out>>
chunkVars == <<overflow_checks, created, value, prov, res>>
sizeVars == <<sz_data, sz_chunk, sz_res>>
pngVars == <<file, cmd>>
vars == <<tc_call, tc_in, tc_res, tc_out, overflow_checks, created, value, prov, res,
          sz_data, sz_chunk, sz_res, file, cmd>>

(***************************************************************************)
(* Bounds of the model.                                                    *)
(***************************************************************************)
MaxStrLen == 5
MaxDataLen == 2
MaxChunks == 3

NoChunk == [none |-> TRUE]
NoBytes == <<>>
NoCall == [call |-> "none", on |-> "none", out |-> [kind |-> "None"]]

(***************************************************************************)
(* Sequences of bytes.                                                     *)
(***************************************************************************)
SeqsUpTo(S, n) == UNION {[1..k -> S] : k \in 0..n}

Slice(s, from, to) == SubSeq(s, from + 1, to)

(***************************************************************************)
(* chunk_type.rs                                                           *)
(***************************************************************************)
Ok(v) == [kind |-> "Ok", val |-> v]
Err(e) == [kind |-> "Err", err |-> e]
Panic(why) == [kind |-> "Panic", why |-> why]

checkOffByOne(val) ==
    IF val \in 65..89 \/ val \in 97..122 THEN Ok(val) ELSE Err("InvalidChunk")

check(val) ==
    IF val \in 65..90 \/ val \in 97..122 THEN Ok(val) ELSE Err("InvalidChunk")

\* The four `check(..)?` of a constructor: the first failure is returned.
CheckAll(b) ==
    IF check(b[1]).kind = "Err" THEN check(b[1])
    ELSE IF check(b[2]).kind = "Err" THEN check(b[2])
    ELSE IF check(b[3]).kind = "Err" THEN check(b[3])
    ELSE IF check(b[4]).kind = "Err" THEN check(b[4])
    ELSE Ok([a |-> check(b[1]).val, b |-> check(b[2]).val,
             c |-> check(b[3]).val, d |-> check(b[4]).val])

ChunkTypeTryFrom(v) == CheckAll(v)

ChunkTypeFromStr(s) ==
    IF Len(s) # 4 THEN Err("InvalidChunk") ELSE CheckAll(s)

bytes(t) == <<t.a, t.b, t.c, t.d>>

\* x & (1 << 5)
Bit5(x) == 32 * ((x \div 32) % 2)

is_valid_strict(t) == 65 < t.c /\ 90 > t.c

is_valid(t) == 65 <= t.c /\ 90 >= t.c
is_critical(t) == Bit5(t.a) = 0
is_public(t) == Bit5(t.b) = 0
is_reserved_bit_valid(t) == Bit5(t.c) = 0
is_safe_to_copy(t) == Bit5(t.d) # 0

(***************************************************************************)
(* std::str::from_utf8 / String::from_utf8: whether the bytes are          *)
(* well-formed UTF-8.                                                      *)
(***************************************************************************)
IsCont(s, i) == i <= Len(s) /\ s[i] \in 128..191

\* The number of bytes of the well-formed character starting at s[i], 0 if none.
CharLen(s, i) ==
    LET b == s[i] IN
    IF b <= 127 THEN 1
    ELSE IF b \in 194..223 THEN (IF IsCont(s, i + 1) THEN 2 ELSE 0)
    ELSE IF b = 224 THEN
        (IF i + 1 <= Len(s) /\ s[i + 1] \in 160..191 /\ IsCont(s, i + 2) THEN 3 ELSE 0)
    ELSE IF b \in 225..236 \/ b \in 238..239 THEN
        (IF IsCont(s, i + 1) /\ IsCont(s, i + 2) THEN 3 ELSE 0)
    ELSE IF b = 237 THEN
        (IF i + 1 <= Len(s) /\ s[i + 1] \in 128..159 /\ IsCont(s, i + 2) THEN 3 ELSE 0)
    ELSE IF b = 240 THEN
        (IF i + 1 <= Len(s) /\ s[i + 1] \in 144..191 /\ IsCont(s, i + 2) /\ IsCont(s, i + 3)
         THEN 4 ELSE 0)
    ELSE IF b \in 241..243 THEN
        (IF IsCont(s, i + 1) /\ IsCont(s, i + 2) /\ IsCont(s, i + 3) THEN 4 ELSE 0)
    ELSE IF b = 244 THEN
        (IF i + 1 <= Len(s) /\ s[i + 1] \in 128..143 /\ IsCont(s, i + 2) /\ IsCont(s, i + 3)
         THEN 4 ELSE 0)
    ELSE 0

RECURSIVE Utf8From(_, _)
Utf8From(s, i) ==
    IF i > Len(s) THEN TRUE
    ELSE IF CharLen(s, i) = 0 THEN FALSE
    ELSE Utf8From(s, i + CharLen(s, i))

from_utf8(s) == IF Utf8From(s, 1) THEN Ok(s) ELSE Err("Utf8Error")

\* impl Display for ChunkType
\* A rendering that puts the last two letters the other way round.
ChunkTypeFmtSwapped(t) == Ok(<<t.a, t.b, t.d, t.c>>)

ChunkTypeFmt(t) ==
    IF from_utf8(<<t.a, t.b, t.c, t.d>>).kind = "Ok"
    THEN Ok(from_utf8(<<t.a, t.b, t.c, t.d>>).val)
    ELSE Panic("unwrap on Err(FromUtf8Error)")

(***************************************************************************)
(* Machine integers.                                                       *)
(***************************************************************************)
\* u32::from_be_bytes
U32FromBeBytes(b) == [hi |-> b[1] * 256 + b[2], lo |-> b[3] * 256 + b[4]]

\* u32::to_le_bytes, the byte order to_be_bytes does not produce
U32ToLeBytes(w) == <<w.lo % 256, w.lo \div 256, w.hi % 256, w.hi \div 256>>

\* u32::to_be_bytes
U32ToBeBytes(w) == <<w.hi \div 256, w.hi % 256, w.lo \div 256, w.lo % 256>>

\* The usize of a length the model holds as a number.
UsizeOf(n) == <<n % 65536, (n \div 65536) % 65536, 0, 0>>

\* `x as u32` of a usize: the low 32 bits.
AsU32(u) == [hi |-> u[2], lo |-> u[1]]

\* `x as usize` of a u32.
AsUsize(w) == <<w.lo, w.hi, 0, 0>>

\* The number a usize below 2^31 stands for.
ToInt(u) == u[1] + 65536 * u[2]

\* u - k from limb i upwards, for 0 <= k < 65536: the wrapped difference, and
\* whether it borrowed out of the top limb.
RECURSIVE SubFrom(_, _, _)
SubFrom(u, i, k) ==
    IF k = 0 THEN [val |-> u, borrow |-> FALSE]
    ELSE IF i > 4 THEN [val |-> u, borrow |-> TRUE]
    ELSE IF u[i] >= k THEN [val |-> [u EXCEPT ![i] = u[i] - k], borrow |-> FALSE]
    ELSE SubFrom([u EXCEPT ![i] = u[i] + 65536 - k], i + 1, 1)

\* u + k from limb i upwards, for 0 <= k < 65536, wrapped.
RECURSIVE AddTo(_, _, _)
AddTo(u, i, k) ==
    IF k = 0 \/ i > 4 THEN u
    ELSE IF u[i] + k < 65536 THEN [u EXCEPT ![i] = u[i] + k]
    ELSE AddTo([u EXCEPT ![i] = u[i] + k - 65536], i + 1, 1)

(***************************************************************************)
(* crc::Crc::<u32>::new(&crc::CRC_32_ISO_HDLC).checksum: the reflected     *)
(* CRC-32 with polynomial 0xEDB88320, initial value and final xor          *)
(* 0xFFFFFFFF, computed a byte at a time through the 256-entry table.      *)
(***************************************************************************)
RECURSIVE XorBits(_, _)
XorBits(a, b) ==
    IF a = 0 THEN b
    ELSE IF b = 0 THEN a
    ELSE ((a + b) % 2) + 2 * XorBits(a \div 2, b \div 2)

\* The xor of two bytes, tabulated once: entry a * 256 + b + 1 is a ^ b.
XorByteTable == SubSeq([i \in 1..65536 |-> XorBits((i - 1) \div 256, (i - 1) % 256)], 1, 65536)

\* The xor of two 16-bit halves, a byte at a time.
Xor(a, b) ==
    256 * XorByteTable[(a \div 256) * 256 + (b \div 256) + 1]
        + XorByteTable[(a % 256) * 256 + (b % 256) + 1]

Poly == [hi |-> 60856, lo |-> 33568]

ShiftStep(w) ==
    LET s == [hi |-> w.hi \div 2, lo |-> (w.lo \div 2) + 32768 * (w.hi % 2)]
    IN IF w.lo % 2 = 1
       THEN [hi |-> XorBits(s.hi, Poly.hi), lo |-> XorBits(s.lo, Poly.lo)]
       ELSE s

RECURSIVE ShiftN(_, _)
ShiftN(w, n) == IF n = 0 THEN w ELSE ShiftStep(ShiftN(w, n - 1))

\* The 256-entry table, tabulated once: entry i + 1 is the register that byte i
\* leaves after eight shifts.
CrcTable == SubSeq([i \in 1..256 |-> ShiftN([hi |-> 0, lo |-> i - 1], 8)], 1, 256)

U16 == 0..65535

\* One byte through the table.  A function, so that the register is computed
\* before the step is.
CrcByte ==
    [w \in [hi : U16, lo : U16], b \in 0..255 |->
        LET e == CrcTable[XorByteTable[(w.lo % 256) * 256 + b + 1] + 1]
        IN [hi |-> Xor(e.hi, w.hi \div 256),
            lo |-> Xor(e.lo, (w.lo \div 256) + 256 * (w.hi % 256))]]

\* The bytes go through the register in order; Run halves the range so that the
\* evaluation nests only logarithmically deep.
Checksum(data) ==
    LET Run[w \in [hi : U16, lo : U16], from \in 1..(Len(data) + 1), to \in 0..Len(data)] ==
            IF from > to THEN w
            ELSE IF from = to THEN CrcByte[w, data[from]]
            ELSE Run[Run[w, from, (from + to) \div 2], ((from + to) \div 2) + 1, to]
        r == Run[[hi |-> 65535, lo |-> 65535], 1, Len(data)]
    IN [hi |-> 65535 - r.hi, lo |-> 65535 - r.lo]

(***************************************************************************)
(* chunk.rs                                                                *)
(***************************************************************************)
\* `let length = data.len() as u32` of Chunk::new
new_length(len) == AsU32(len)

ChunkNew(chunk_type, data) ==
    [length |-> new_length(UsizeOf(Len(data))),
     chunk_type |-> chunk_type,
     chunk_data |-> data,
     crc |-> Checksum(bytes(chunk_type) \o data)]

as_bytes_le(c) ==
    U32ToLeBytes(c.length) \o bytes(c.chunk_type) \o c.chunk_data \o U32ToLeBytes(c.crc)

as_bytes(c) ==
    U32ToBeBytes(c.length) \o bytes(c.chunk_type) \o c.chunk_data \o U32ToBeBytes(c.crc)

\* The decimal digits `{}` writes for a u32.
RECURSIVE Decimal(_)
Decimal(w) ==
    LET t == (w.hi % 10) * 65536 + w.lo
        q == [hi |-> w.hi \div 10, lo |-> t \div 10]
    IN IF q.hi = 0 /\ q.lo = 0
       THEN <<48 + (t % 10)>>
       ELSE Decimal(q) \o <<48 + (t % 10)>>

\* impl Display for Chunk
ChunkFmt(c) ==
    IF ChunkTypeFmt(c.chunk_type).kind = "Panic" THEN ChunkTypeFmt(c.chunk_type)
    ELSE IF from_utf8(c.chunk_data).kind = "Err" THEN Panic("unwrap on Err(Utf8Error)")
    ELSE Ok(Decimal(c.length) \o <<32>> \o ChunkTypeFmt(c.chunk_type).val \o <<32>>
            \o from_utf8(c.chunk_data).val \o <<32>> \o Decimal(c.crc) \o <<32>>)

data_as_string(c) ==
    IF from_utf8(c.chunk_data).kind = "Ok"
    THEN Ok(from_utf8(c.chunk_data).val)
    ELSE Err("Data")

\* `len - 12`: the difference, or the panic of a build with overflow checks.
len_minus_12(len, checks) ==
    LET d == SubFrom(len, 1, 12)
    IN IF d.borrow /\ checks THEN Panic("attempt to subtract with overflow") ELSE Ok(d.val)

\* `(length as usize) != len - 12`
length_differs(length, rest) == AsUsize(length) # rest

\* `val != crc` comparing the low halves only
crc_differs_low16(val, crc) == val.lo # crc.lo

\* `val != crc`
crc_differs(val, crc) == val # crc

\* impl TryFrom<&[u8]> for Chunk, in a build with or without overflow checks
ChunkTryFrom(v, checks) ==
    IF Len(v) < 4 THEN Panic("index out of bounds")
    ELSE IF Len(v) < 8 THEN Panic("index out of bounds")
    ELSE IF ChunkTypeTryFrom(<<v[5], v[6], v[7], v[8]>>).kind = "Err"
    THEN Panic("unwrap on Err(InvalidChunk)")
    ELSE IF len_minus_12(UsizeOf(Len(v)), checks).kind = "Panic"
    THEN len_minus_12(UsizeOf(Len(v)), checks)
    ELSE
      LET length == U32FromBeBytes(<<v[1], v[2], v[3], v[4]>>)
          chunk_type == ChunkTypeTryFrom(<<v[5], v[6], v[7], v[8]>>).val
          len == Len(v)
      IN IF length_differs(length, len_minus_12(UsizeOf(len), checks).val) THEN Err("Length")
         ELSE
           LET end == 8 + ToInt(AsUsize(length))
               crc == U32FromBeBytes(<<v[len - 3], v[len - 2], v[len - 1], v[len]>>)
               val == Checksum(Slice(v, 4, len - 4))
           IN IF end > len THEN Panic("range end index out of range")
              ELSE IF crc_differs(val, crc) THEN Err("Crc")
              ELSE Ok([length |-> length,
                       chunk_type |-> chunk_type,
                       chunk_data |-> Slice(v, 8, end),
                       crc |-> crc])

(***************************************************************************)
(* The ChunkType calls as actions.  The constructors are pure, so one run   *)
(* constructs one value and then calls its accessors.                      *)
(***************************************************************************)
\* Bytes on both sides of every boundary of check, and a digit.
TypeByteSample == {49, 64, 65, 90, 91, 96, 97, 122, 123}

\* The bytes strings are made of: letters, a digit and the two bytes of U+00E9.
StrByteSample == {49, 65, 90, 97, 122, 195, 169}

Strings == {s \in SeqsUpTo(StrByteSample, MaxStrLen) : Utf8From(s, 1)}

\* Every variable of the parts of the model a specification leaves alone.
IdleType ==
    /\ tc_call = "none"
    /\ tc_in = NoBytes
    /\ tc_res = [kind |-> "None"]
    /\ tc_out = NoBytes

IdleChunk ==
    /\ overflow_checks = TRUE
    /\ created = NoChunk
    /\ value = NoBytes
    /\ prov = "none"
    /\ res = NoCall

IdleSize ==
    /\ sz_data = <<0, 0, 0, 0>>
    /\ sz_chunk = [hi |-> 0, lo |-> 0]
    /\ sz_res = NoCall

IdlePng ==
    /\ file = NoBytes
    /\ cmd = [name |-> "none"]

TypeTryFrom ==
    /\ tc_call = "none"
    /\ \E b \in [1..4 -> TypeByteSample] :
          /\ tc_in' = b
          /\ tc_res' = ChunkTypeTryFrom(b)
    /\ tc_call' = "try_from"
    /\ tc_out' = NoBytes
    /\ UNCHANGED <<chunkVars, sizeVars, pngVars>>

TypeFromStr ==
    /\ tc_call = "none"
    /\ \E s \in Strings :
          /\ tc_in' = s
          /\ tc_res' = ChunkTypeFromStr(s)
    /\ tc_call' = "from_str"
    /\ tc_out' = NoBytes
    /\ UNCHANGED <<chunkVars, sizeVars, pngVars>>

TypeBytes ==
    /\ tc_res.kind = "Ok"
    /\ tc_call' = "bytes"
    /\ tc_out' = bytes(tc_res.val)
    /\ UNCHANGED <<tc_in, tc_res>>
    /\ UNCHANGED <<chunkVars, sizeVars, pngVars>>

TypeFlags ==
    /\ tc_res.kind = "Ok"
    /\ tc_call' = "flags"
    /\ tc_out' = [is_valid |-> is_valid(tc_res.val),
                  is_critical |-> is_critical(tc_res.val),
                  is_public |-> is_public(tc_res.val),
                  is_reserved_bit_valid |-> is_reserved_bit_valid(tc_res.val),
                  is_safe_to_copy |-> is_safe_to_copy(tc_res.val),
                  to_string |-> ChunkTypeFmt(tc_res.val)]
    /\ UNCHANGED <<tc_in, tc_res>>
    /\ UNCHANGED <<chunkVars, sizeVars, pngVars>>

InitType ==
    IdleType /\ IdleChunk /\ IdleSize /\ IdlePng

NextType ==
    \/ TypeTryFrom
    \/ TypeFromStr
    \/ TypeBytes
    \/ TypeFlags

SpecType == InitType /\ [][NextType]_vars

(***************************************************************************)
(* Claims about ChunkType.                                                 *)
(***************************************************************************)
IsLetter(b) == (65 <= b /\ b <= 90) \/ (97 <= b /\ b <= 122)

\* C6: ChunkType::try_from succeeds exactly on four letters, from_str exactly on
\* a string of four bytes that are all letters, and bytes() returns the input
\* bytes unchanged.
C6_ConstructionAcceptsExactlyLetters ==
    /\ tc_call = "try_from" =>
          (tc_res.kind = "Ok" <=> \A i \in 1..4 : IsLetter(tc_in[i]))
    /\ tc_call = "from_str" =>
          (tc_res.kind = "Ok" <=> (Len(tc_in) = 4 /\ \A i \in 1..4 : IsLetter(tc_in[i])))
    /\ tc_call \in {"try_from", "from_str"} => tc_res.kind \in {"Ok", "Err"}
    /\ tc_call = "bytes" => (tc_out = tc_in /\ \A i \in 1..4 : IsLetter(tc_out[i]))

\* A type was built from a string ending in 'Z' and bytes() was called on it.
C6_Witness ==
    /\ tc_call = "bytes"
    /\ Len(tc_in) = 4
    /\ tc_in[4] = 90
    /\ tc_out = tc_in

\* C8: on every ChunkType, is_reserved_bit_valid() and is_valid() agree.
C8_ReservedBitEqualsRangeTest ==
    tc_call = "flags" => tc_out.is_reserved_bit_valid = tc_out.is_valid

\* Both tests were run on a type whose third byte is 'A', and both said TRUE.
C8_Witness ==
    /\ tc_call = "flags"
    /\ tc_res.val.c = 65
    /\ tc_out.is_valid
    /\ tc_out.is_reserved_bit_valid

(***************************************************************************)
(* The Chunk calls as actions.  One run builds or is handed one chunk: it  *)
(* is encoded, the bytes are possibly damaged in one place, decoded again, *)
(* and the decoded chunk is encoded or printed.                            *)
(***************************************************************************)
\* "RuSt" and "Rust"
ChunkTypes == {ChunkTypeFromStr(s).val : s \in {<<82, 117, 83, 116>>, <<82, 117, 115, 116>>}}

\* Payload bytes: NUL, 'A', the two bytes of U+00E9 and a byte no UTF-8 text holds.
DataByteSample == {0, 65, 195, 169, 255}

Payloads == SeqsUpTo(DataByteSample, MaxDataLen)

\* The chunk of testing_chunk() in chunk.rs, with the crc given.
TestChunkBytes(crc) ==
    <<0, 0, 0, 42>> \o <<82, 117, 83, 116>>
    \o <<84, 104, 105, 115, 32, 105, 115, 32, 119, 104, 101, 114, 101, 32, 121, 111,
         117, 114, 32, 115, 101, 99, 114, 101, 116, 32, 109, 101, 115, 115, 97, 103,
         101, 32, 119, 105, 108, 108, 32, 98, 101, 33>>
    \o crc

\* crc 2882656334 (test_valid_chunk_from_bytes) and 2882656333
\* (test_invalid_chunk_from_bytes), and the empty buffer.
RawInputs ==
    {TestChunkBytes(<<171, 209, 216, 78>>), TestChunkBytes(<<171, 209, 216, 77>>), NoBytes}

\* Bytes written over a byte of the length or type field.
TamperByteSample == {0, 1, 49, 97, 255}

FlipBit(b, k) == IF (b \div (2 ^ k)) % 2 = 1 THEN b - 2 ^ k ELSE b + 2 ^ k

\* Bit i (0..31) of the trailing four bytes flipped.
FlipCrcBitOf(v, i) ==
    LET p == Len(v) - 3 + (i \div 8)
    IN [v EXCEPT ![p] = FlipBit(v[p], i % 8)]

Untouched == prov \in {"encoded", "raw"} /\ res.call \in {"none", "as_bytes"}

New ==
    /\ created = NoChunk
    /\ prov = "none"
    /\ \E t \in ChunkTypes, data \in Payloads :
          created' = ChunkNew(t, data)
    /\ res' = [call |-> "new", on |-> "created", out |-> [kind |-> "None"]]
    /\ UNCHANGED <<overflow_checks, value, prov>>
    /\ UNCHANGED <<typeVars, sizeVars, pngVars>>

AsBytes ==
    /\ created # NoChunk
    /\ prov = "none"
    /\ value' = as_bytes(created)
    /\ prov' = "encoded"
    /\ res' = [call |-> "as_bytes", on |-> "created", out |-> as_bytes(created)]
    /\ UNCHANGED <<overflow_checks, created>>
    /\ UNCHANGED <<typeVars, sizeVars, pngVars>>

Supply ==
    /\ created = NoChunk
    /\ prov = "none"
    /\ \E b \in RawInputs : value' = b
    /\ prov' = "raw"
    /\ res' = NoCall
    /\ UNCHANGED <<overflow_checks, created>>
    /\ UNCHANGED <<typeVars, sizeVars, pngVars>>

Truncate ==
    /\ Untouched
    /\ \E n \in 0..(Len(value) - 1) : value' = SubSeq(value, 1, n)
    /\ prov' = "truncated"
    /\ res' = NoCall
    /\ UNCHANGED <<overflow_checks, created>>
    /\ UNCHANGED <<typeVars, sizeVars, pngVars>>

Extend ==
    /\ Untouched
    /\ value' = Append(value, 0)
    /\ prov' = "extended"
    /\ res' = NoCall
    /\ UNCHANGED <<overflow_checks, created>>
    /\ UNCHANGED <<typeVars, sizeVars, pngVars>>

SetLengthByte ==
    /\ Untouched
    /\ Len(value) >= 4
    /\ \E i \in 1..4, b \in TamperByteSample :
          /\ value[i] # b
          /\ value' = [value EXCEPT ![i] = b]
    /\ prov' = "length_changed"
    /\ res' = NoCall
    /\ UNCHANGED <<overflow_checks, created>>
    /\ UNCHANGED <<typeVars, sizeVars, pngVars>>

SetTypeByte ==
    /\ Untouched
    /\ Len(value) >= 8
    /\ \E i \in 5..8, b \in TamperByteSample :
          /\ value[i] # b
          /\ value' = [value EXCEPT ![i] = b]
    /\ prov' = "type_changed"
    /\ res' = NoCall
    /\ UNCHANGED <<overflow_checks, created>>
    /\ UNCHANGED <<typeVars, sizeVars, pngVars>>

\* One bit of the checksum field of a buffer Chunk::try_from accepted is flipped.
FlipCrcBit ==
    /\ res.call = "try_from"
    /\ res.out.kind = "Ok"
    /\ \E i \in 0..31 : value' = FlipCrcBitOf(value, i)
    /\ prov' = "crc_flipped"
    /\ res' = NoCall
    /\ UNCHANGED <<overflow_checks, created>>
    /\ UNCHANGED <<typeVars, sizeVars, pngVars>>

TryFrom ==
    /\ prov # "none"
    /\ res.call \in {"none", "as_bytes"}
    /\ res.on # "decoded"
    /\ res' = [call |-> "try_from", on |-> "value", out |-> ChunkTryFrom(value, overflow_checks)]
    /\ UNCHANGED <<overflow_checks, created, value, prov>>
    /\ UNCHANGED <<typeVars, sizeVars, pngVars>>

AsBytesDecoded ==
    /\ res.call = "try_from"
    /\ res.out.kind = "Ok"
    /\ res' = [call |-> "as_bytes", on |-> "decoded", out |-> as_bytes(res.out.val)]
    /\ UNCHANGED <<overflow_checks, created, value, prov>>
    /\ UNCHANGED <<typeVars, sizeVars, pngVars>>

Fmt ==
    /\ created # NoChunk
    /\ prov = "none"
    /\ res' = [call |-> "fmt", on |-> "created", out |-> ChunkFmt(created)]
    /\ UNCHANGED <<overflow_checks, created, value, prov>>
    /\ UNCHANGED <<typeVars, sizeVars, pngVars>>

FmtDecoded ==
    /\ res.call = "try_from"
    /\ res.out.kind = "Ok"
    /\ res' = [call |-> "fmt", on |-> "decoded", out |-> ChunkFmt(res.out.val)]
    /\ UNCHANGED <<overflow_checks, created, value, prov>>
    /\ UNCHANGED <<typeVars, sizeVars, pngVars>>

DataAsString ==
    /\ created # NoChunk
    /\ prov = "none"
    /\ res' = [call |-> "data_as_string", on |-> "created", out |-> data_as_string(created)]
    /\ UNCHANGED <<overflow_checks, created, value, prov>>
    /\ UNCHANGED <<typeVars, sizeVars, pngVars>>

DataAsStringDecoded ==
    /\ res.call = "try_from"
    /\ res.out.kind = "Ok"
    /\ res' = [call |-> "data_as_string", on |-> "decoded",
               out |-> data_as_string(res.out.val)]
    /\ UNCHANGED <<overflow_checks, created, value, prov>>
    /\ UNCHANGED <<typeVars, sizeVars, pngVars>>

Init ==
    /\ overflow_checks \in BOOLEAN
    /\ created = NoChunk
    /\ value = NoBytes
    /\ prov = "none"
    /\ res = NoCall
    /\ IdleType /\ IdleSize /\ IdlePng

Next ==
    \/ New
    \/ AsBytes
    \/ Supply
    \/ Truncate
    \/ Extend
    \/ SetLengthByte
    \/ SetTypeByte
    \/ FlipCrcBit
    \/ TryFrom
    \/ AsBytesDecoded
    \/ Fmt
    \/ FmtDecoded
    \/ DataAsString
    \/ DataAsStringDecoded

Spec == Init /\ [][Next]_vars

(***************************************************************************)
(* The length arithmetic of Chunk::new, as_bytes and try_from for a        *)
(* payload of sz_data bytes whose contents are left abstract, so that      *)
(* payloads of 4 GiB and more are within reach.  The type is a valid one.  *)
(***************************************************************************)
\* data.len() of the payloads: values around every limb boundary.
PayloadSizes ==
    {<<a, b, c, 0>> : a \in {0, 1, 42, 65535}, b \in {0, 1, 65535}, c \in {0, 1, 2, 65535}}

\* The length of the vector as_bytes returns: 4 + 4 + data.len() + 4.
as_bytes_len(data_len) == AddTo(data_len, 1, 12)

NewSized ==
    /\ sz_res.call = "none"
    /\ \E n \in PayloadSizes :
          /\ sz_data' = n
          /\ sz_chunk' = new_length(n)
    /\ sz_res' = [call |-> "new", on |-> "created", out |-> [kind |-> "None"]]
    /\ UNCHANGED <<typeVars, chunkVars, pngVars>>

\* The first four bytes and the length of the encoding.
AsBytesSized ==
    /\ sz_res.call = "new"
    /\ sz_res' = [call |-> "as_bytes", on |-> "created",
                  out |-> [head |-> U32ToBeBytes(sz_chunk), len |-> as_bytes_len(sz_data)]]
    /\ UNCHANGED <<sz_data, sz_chunk>>
    /\ UNCHANGED <<typeVars, chunkVars, pngVars>>

\* Chunk::try_from on that encoding, up to its length test.
TryFromSized ==
    /\ sz_res.call = "as_bytes"
    /\ LET length == U32FromBeBytes(sz_res.out.head)
           rest == len_minus_12(sz_res.out.len, overflow_checks)
       IN sz_res' = [call |-> "try_from", on |-> "value",
                     out |-> IF rest.kind = "Panic" THEN rest
                             ELSE IF length_differs(length, rest.val) THEN Err("Length")
                             ELSE [kind |-> "LengthOk", length |-> length]]
    /\ UNCHANGED <<sz_data, sz_chunk>>
    /\ UNCHANGED <<typeVars, chunkVars, pngVars>>

InitLen ==
    IdleSize /\ IdleType /\ IdleChunk /\ IdlePng

NextLen ==
    \/ NewSized
    \/ AsBytesSized
    \/ TryFromSized

SpecLen == InitLen /\ [][NextLen]_vars

(***************************************************************************)
(* Claims about Chunk.                                                     *)
(***************************************************************************)
\* C1: Chunk::try_from returns Err(Type) for every buffer whose type field
\* (bytes 4..8) holds a byte that is not a letter; it neither panics nor
\* returns a Chunk.
C1_BadTypeIsTypeError ==
    (/\ res.call = "try_from"
     /\ Len(value) >= 8
     /\ \E i \in 5..8 : ~IsLetter(value[i]))
    => res.out = Err("Type")

\* The declared length of a buffer does not fit its size (or is not all there).
SizeMismatch(v) ==
    \/ Len(v) < 12
    \/ AsUsize(U32FromBeBytes(SubSeq(v, 1, 4))) # UsizeOf(Len(v) - 12)

\* C2: Chunk::try_from returns Err(Length) for every buffer whose size is not
\* the declared length plus 12, buffers of 0..11 bytes included; it neither
\* panics nor returns a Chunk.
C2_SizeMismatchIsLengthError ==
    (res.call = "try_from" /\ SizeMismatch(value)) => res.out = Err("Length")

\* C3: Chunk::try_from returns a Chunk only when the trailing checksum is the
\* CRC-32 of type bytes ++ payload, and after one bit of the checksum field of
\* an accepted buffer is flipped it returns Err(Crc).
C3_ChecksumGuardsDecode ==
    /\ (res.call = "try_from" /\ res.out.kind = "Ok") =>
          U32FromBeBytes(SubSeq(value, Len(value) - 3, Len(value)))
             = Checksum(bytes(res.out.val.chunk_type) \o res.out.val.chunk_data)
    /\ (res.call = "try_from" /\ prov = "crc_flipped") => res.out = Err("Crc")

\* A buffer that was accepted had a bit of its checksum's first byte flipped and
\* was decoded again.
C3_Witness ==
    /\ res.call = "try_from"
    /\ prov = "crc_flipped"
    /\ res.out = Err("Crc")
    /\ \E t \in ChunkTypes, d \in Payloads :
          /\ d # <<>>
          /\ Len(value) = Len(as_bytes(ChunkNew(t, d)))
          /\ SubSeq(value, 1, Len(value) - 4) = SubSeq(as_bytes(ChunkNew(t, d)), 1, Len(value) - 4)
          /\ value[Len(value) - 3] # as_bytes(ChunkNew(t, d))[Len(value) - 3]

\* C5: for every buffer Chunk::try_from accepts, as_bytes of the decoded chunk
\* is that buffer, byte for byte.
C5_EncodeInvertsDecode ==
    (res.call = "as_bytes" /\ res.on = "decoded") => res.out = value

\* The chunk decoded from the 54 bytes of the test chunk was encoded.
C5_Witness ==
    /\ res.call = "as_bytes"
    /\ res.on = "decoded"
    /\ prov = "raw"
    /\ Len(res.out) = 54

\* C10: formatting a Chunk with Display returns, whatever its payload.
C10_DisplayNeverPanics ==
    res.call = "fmt" => res.out.kind = "Ok"

\* C7: the length of every Chunk is the number of its payload bytes, whatever
\* the size of the payload handed to Chunk::new.
C7_LengthIsPayloadSize ==
    sz_res.call # "none" => AsUsize(sz_chunk) = sz_data

\* C4: decoding the encoding of Chunk::new(t, p) succeeds and gives the same
\* length (here: it passes the length test, with the length Chunk::new stored).
C4_RoundTripSucceeds ==
    sz_res.call = "try_from" =>
        (sz_res.out.kind = "LengthOk" /\ sz_res.out.length = sz_chunk)

\* C4, for the payloads of the chunk session (all far below 4 GiB): decoding the
\* encoding of Chunk::new(t, p) returns a chunk equal to it in every field.
C4_RoundTripOfSmallPayloads ==
    (res.call = "try_from" /\ prov = "encoded") => res.out = Ok(created)

(***************************************************************************)
(* png.rs is not among the sources: Png is modelled from the specification *)
(* of the Container (signature, decode, chunkByType, appendChunk,          *)
(* removeFirstChunk, encode).                                              *)
(***************************************************************************)
STANDARD_HEADER == <<137, 80, 78, 71, 13, 10, 26, 10>>

\* The chunks of bytes `rest`, each as long as its length field says.
RECURSIVE ParseChunks(_, _)
ParseChunks(rest, checks) ==
    IF rest = <<>> THEN Ok(<<>>)
    ELSE IF Len(rest) < 12 THEN Err("Length")
    ELSE
      LET length == U32FromBeBytes(SubSeq(rest, 1, 4))
      IN IF length.hi # 0 \/ length.lo + 12 > Len(rest) THEN Err("Length")
         ELSE
           LET first == ChunkTryFrom(SubSeq(rest, 1, length.lo + 12), checks)
               others == ParseChunks(SubSeq(rest, length.lo + 13, Len(rest)), checks)
           IN IF first.kind # "Ok" THEN first
              ELSE IF others.kind # "Ok" THEN others
              ELSE Ok(<<first.val>> \o others.val)

PngTryFrom(b, checks) ==
    IF Len(b) < 8 \/ SubSeq(b, 1, 8) # STANDARD_HEADER THEN Err("Header")
    ELSE ParseChunks(SubSeq(b, 9, Len(b)), checks)

RECURSIVE ConcatBytes(_)
ConcatBytes(chunks) ==
    IF chunks = <<>> THEN <<>>
    ELSE as_bytes(Head(chunks)) \o ConcatBytes(Tail(chunks))

PngAsBytes(chunks) == STANDARD_HEADER \o ConcatBytes(chunks)

append_chunk(chunks, c) == Append(chunks, c)

\* The index of the first chunk at or after i whose type renders to text, 0 if none.
RECURSIVE FindFrom(_, _, _)
FindFrom(chunks, text, i) ==
    IF i > Len(chunks) THEN 0
    ELSE IF ChunkTypeFmt(chunks[i].chunk_type) = Ok(text) THEN i
    ELSE FindFrom(chunks, text, i + 1)

chunk_by_type(chunks, text) ==
    IF FindFrom(chunks, text, 1) = 0 THEN NoChunk ELSE chunks[FindFrom(chunks, text, 1)]

\* The chunks left, and the chunk removed (NoChunk if none matched).
remove_first_chunk(chunks, text) ==
    LET i == FindFrom(chunks, text, 1)
    IN IF i = 0 THEN [chunks |-> chunks, removed |-> NoChunk]
       ELSE [chunks |-> SubSeq(chunks, 1, i - 1) \o SubSeq(chunks, i + 1, Len(chunks)),
             removed |-> chunks[i]]

(***************************************************************************)
(* main.rs: the commands.  Each reads the file, and Encode and Remove      *)
(* write it back.  A command that fails leaves the file as it was.         *)
(***************************************************************************)
\* png_from_file, the file being there
png_from_file(f, checks) ==
    IF Len(f) < 8 THEN Panic("range end index out of range")
    ELSE IF SubSeq(f, 1, 8) # STANDARD_HEADER THEN [kind |-> "Exit", code |-> 1]
    ELSE PngTryFrom(f, checks)

\* "RuSt", "Rust" and "Ru1t"
TypeNames == {<<82, 117, 83, 116>>, <<82, 117, 115, 116>>, <<82, 117, 49, 116>>}

\* "" and "A"
Messages == {<<>>, <<65>>}

\* A file with no chunk, one holding a chunk whose payload is no text, an empty
\* file and one cut short.
InitialFiles ==
    {STANDARD_HEADER,
     STANDARD_HEADER \o as_bytes(ChunkNew(ChunkTypeFromStr(<<82, 117, 83, 116>>).val, <<255>>)),
     NoBytes,
     STANDARD_HEADER \o <<0>>}

Encode ==
    /\ LET png == png_from_file(file, overflow_checks)
       IN \E chunktype \in TypeNames, message \in Messages, in_place \in BOOLEAN :
             LET chunk_type == ChunkTypeFromStr(chunktype)
             IN IF png.kind # "Ok"
                THEN /\ cmd' = [name |-> "encode", arg |-> chunktype, out |-> png,
                                found |-> NoChunk, written |-> NoBytes]
                     /\ file' = file
                ELSE IF chunk_type.kind # "Ok"
                THEN /\ cmd' = [name |-> "encode", arg |-> chunktype, out |-> chunk_type,
                                found |-> NoChunk, written |-> NoBytes]
                     /\ file' = file
                ELSE LET out == PngAsBytes(append_chunk(png.val,
                                                        ChunkNew(chunk_type.val, message)))
                     IN /\ Len(png.val) < MaxChunks
                        /\ cmd' = [name |-> "encode", arg |-> chunktype, out |-> Ok(message),
                                   found |-> NoChunk, written |-> out]
                        /\ file' = IF in_place THEN out ELSE file
    /\ UNCHANGED <<typeVars, chunkVars, sizeVars>>

Decode ==
    /\ LET png == png_from_file(file, overflow_checks)
       IN \E chunktype \in TypeNames :
             IF png.kind # "Ok"
             THEN cmd' = [name |-> "decode", arg |-> chunktype, out |-> png,
                          found |-> NoChunk, written |-> NoBytes]
             ELSE LET val == chunk_by_type(png.val, chunktype)
                  IN cmd' = [name |-> "decode", arg |-> chunktype,
                             out |-> IF val = NoChunk THEN Ok(NoBytes)
                                     ELSE IF data_as_string(val).kind = "Ok"
                                     THEN data_as_string(val)
                                     ELSE Panic("unwrap on Err(Data)"),
                             found |-> val, written |-> NoBytes]
    /\ file' = file
    /\ UNCHANGED <<typeVars, chunkVars, sizeVars>>

Remove ==
    /\ LET png == png_from_file(file, overflow_checks)
       IN \E chunktype \in TypeNames :
             IF png.kind # "Ok"
             THEN /\ cmd' = [name |-> "remove", arg |-> chunktype, out |-> png,
                             found |-> NoChunk, written |-> NoBytes]
                  /\ file' = file
             ELSE LET r == remove_first_chunk(png.val, chunktype)
                  IN /\ cmd' = [name |-> "remove", arg |-> chunktype, out |-> Ok(NoBytes),
                                found |-> r.removed, written |-> PngAsBytes(r.chunks)]
                     /\ file' = PngAsBytes(r.chunks)
    /\ UNCHANGED <<typeVars, chunkVars, sizeVars>>

\* Print reads the file and writes the container to the standard output; the file
\* stays as it was.
PrintCmd ==
    /\ LET png == png_from_file(file, overflow_checks)
       IN cmd' = [name |-> "print", arg |-> NoBytes,
                  out |-> IF png.kind # "Ok" THEN png ELSE Ok(NoBytes),
                  found |-> NoChunk, written |-> NoBytes]
    /\ file' = file
    /\ UNCHANGED <<typeVars, chunkVars, sizeVars>>

InitPng ==
    /\ file \in InitialFiles
    /\ cmd = [name |-> "none"]
    /\ IdleType /\ IdleChunk /\ IdleSize

NextPng ==
    \/ Encode
    \/ Decode
    \/ Remove
    \/ PrintCmd

SpecPng == InitPng /\ [][NextPng]_vars

(***************************************************************************)
(* Claims about the container.                                             *)
(***************************************************************************)
\* The chunks a file holds.
ChunksOf(f) == PngTryFrom(f, TRUE).val

TypeIs(c, text) == bytes(c.chunk_type) = text

HasType(chunks, text) == \E i \in 1..Len(chunks) : TypeIs(chunks[i], text)

FirstIndex(chunks, text) ==
    CHOOSE i \in 1..Len(chunks) :
        TypeIs(chunks[i], text) /\ \A j \in 1..(i - 1) : ~TypeIs(chunks[j], text)

FirstOfType(chunks, text) ==
    IF HasType(chunks, text) THEN chunks[FirstIndex(chunks, text)] ELSE NoChunk

WithoutFirst(chunks, text) ==
    IF HasType(chunks, text)
    THEN [i \in 1..(Len(chunks) - 1) |->
             IF i < FirstIndex(chunks, text) THEN chunks[i] ELSE chunks[i + 1]]
    ELSE chunks

\* C9: a lookup returns the earliest chunk of the type asked for (none if there
\* is none); a removal returns that same chunk and leaves the others in their
\* order (everything, if none matched); an append puts the new chunk last.
C9_Step ==
    LET before == ChunksOf(file)
        after == ChunksOf(file')
    IN
    /\ (cmd'.name = "decode" /\ png_from_file(file, overflow_checks).kind = "Ok") =>
          /\ cmd'.found = FirstOfType(before, cmd'.arg)
          /\ file' = file
    /\ (cmd'.name = "remove" /\ png_from_file(file, overflow_checks).kind = "Ok") =>
          /\ cmd'.found = FirstOfType(before, cmd'.arg)
          /\ after = WithoutFirst(before, cmd'.arg)
    /\ (cmd'.name = "encode" /\ cmd'.out.kind = "Ok" /\ file' # file) =>
          /\ Len(after) = Len(before) + 1
          /\ SubSeq(after, 1, Len(before)) = before
          /\ TypeIs(after[Len(after)], cmd'.arg)
          /\ after[Len(after)].chunk_data = cmd'.out.val
          /\ ~HasType(before, cmd'.arg) =>
                chunk_by_type(after, cmd'.arg) = after[Len(after)]

C9_FirstMatchLookupAndRemoval == [][C9_Step]_vars

\* A removal took the first of two chunks of one type, the second a different
\* chunk, out of a file that began with a chunk of another type.
C9_Witness ==
    /\ cmd.name = "remove"
    /\ cmd.found # NoChunk
    /\ Len(ChunksOf(file)) = 2
    /\ ~TypeIs(ChunksOf(file)[1], cmd.arg)
    /\ TypeIs(ChunksOf(file)[2], cmd.arg)
    /\ ChunksOf(file)[2] # cmd.found

====
